---- MODULE Spec2Model ----
(***************************************************************************)
(* Model of github.com/bobg/prcomment.                                     *)
(*                                                                         *)
(* Commenter.AddOrUpdate is modelled as a process that takes one step per  *)
(* call it makes on a collaborator (prs.Get, the body generator,           *)
(* issues.ListComments, and the final EditComment or CreateComment); the   *)
(* scan with IsComment works on the slice ListComments returned and is     *)
(* part of the last step.  The remote issue service is the state that the  *)
(* invocations share.  ParsePR is a pure function on strings, modelled on  *)
(* strings represented as sequences of one-character strings.              *)
(***************************************************************************)
EXTENDS Integers, Sequences, FiniteSets, TLC

VARIABLES
    comments,   \* the service: [PRs -> sequence of [id, body]], in listing order
    nextID,     \* the service: the ID the next created comment gets
    inv,        \* [Procs -> the local state of that caller's AddOrUpdate invocation]
    hist,       \* [PRs -> summary of the invocations that returned, per pull request]
    url,        \* ParsePR: the argument, as url.Parse sees it
    parsed      \* ParsePR: the values returned (done = FALSE before the call)

vars == <<comments, nextID, inv, hist, url, parsed>>

----------------------------------------------------------------------------
(* Bounds of the model. *)

\* most comments a pull request starts with
MaxInit == 2
\* the number of comments on the first page that ListComments(..., nil) returns
PerPage == 2
\* most invocations one caller makes one after the other (SpecSeq)
MaxRuns == 3
\* most path segments of a URL given to ParsePR
MaxSegs == 5
\* most leading slashes put in front of the path of a URL given to ParsePR
MaxSlashes == 2

PRs == {1, 2}
Procs == {1, 2}

\* comment bodies: "m1" and "m2" carry the marker the matcher looks for
Marked == {"m1", "m2"}
Bodies == Marked \cup {"x"}
InitBodies == {"m1", "x"}

Min(a, b) == IF a < b THEN a ELSE b

----------------------------------------------------------------------------
(* Errors.  An error is the sequence of its messages, outermost first;    *)
(* the nil error is the empty sequence.                                    *)

Nil == <<>>
SvcErr == <<"service error">>

\* errors.Wrap(err, msg): nil stays nil
Wrap(err, msg) == IF err = Nil THEN Nil ELSE <<msg>> \o err

----------------------------------------------------------------------------
(* The issue service (the four collaborator operations). *)

Call(op, pr, id, body) == [op |-> op, pr |-> pr, id |-> id, body |-> body]

\* issues.ListComments(ctx, owner, reponame, prnum, nil): the first page
ListComments(cs, pr) == SubSeq(cs[pr], 1, Min(Len(cs[pr]), PerPage))

\* issues.EditComment(ctx, owner, reponame, commentID, newComment), when it succeeds
EditComment(cs, id, body) ==
    [p \in PRs |->
        [k \in 1..Len(cs[p]) |->
            IF cs[p][k].id = id THEN [cs[p][k] EXCEPT !.body = body] ELSE cs[p][k]]]

\* issues.CreateComment(ctx, owner, reponame, prnum, comment), when it succeeds
CreateComment(cs, pr, id, body) ==
    [cs EXCEPT ![pr] = Append(@, [id |-> id, body |-> body])]

----------------------------------------------------------------------------
(* Commenter *)

\* Commenter.IsComment: "nil" (no matcher) or "marked" (the body carries the marker)
Matchers == {"nil", "marked"}

IsComment(matcher, c) == matcher = "marked" /\ c.body \in Marked

\* mutant: the loop goes on after a match, so that the last match is the one edited
FirstMatch_Last(matcher, listed) ==
    IF matcher = "nil" THEN 0
    ELSE IF \E k \in 1..Len(listed) : IsComment(matcher, listed[k])
         THEN CHOOSE k \in 1..Len(listed) :
                /\ IsComment(matcher, listed[k])
                /\ \A j \in (k+1)..Len(listed) : ~IsComment(matcher, listed[j])
         ELSE 0

\* the loop of AddOrUpdate: index of the first comment IsComment accepts, 0 if none
FirstMatch(matcher, listed) ==
    IF matcher = "nil" THEN 0
    ELSE IF \E k \in 1..Len(listed) : IsComment(matcher, listed[k])
         THEN CHOOSE k \in 1..Len(listed) :
                /\ IsComment(matcher, listed[k])
                /\ \A j \in 1..(k-1) : ~IsComment(matcher, listed[j])
         ELSE 0

\* the calls of IsComment the loop makes: up to and including the first match
ScanCalls(matcher, listed) ==
    IF matcher = "nil" THEN <<>>
    ELSE LET m == FirstMatch(matcher, listed)
             n == IF m = 0 THEN Len(listed) ELSE m
         IN [k \in 1..n |-> Call("IsComment", 0, listed[k].id, listed[k].body)]

Idle == [pc |-> "idle", pr |-> 0, matcher |-> "nil", body |-> "", listed |-> <<>>,
         calls |-> <<>>, result |-> Nil, fault |-> "", snap |-> <<>>]

\* the caller enters AddOrUpdate(ctx, owner, reponame, prnum) on a Commenter
Start(i) ==
    /\ inv[i].pc = "idle"
    /\ hist[1].n + hist[2].n < MaxRuns
    /\ \E pr \in PRs, m \in Matchers :
         inv' = [inv EXCEPT ![i] = [Idle EXCEPT !.pc = "get", !.pr = pr,
                                                !.matcher = m, !.snap = comments]]
    /\ UNCHANGED <<comments, nextID, hist, url, parsed>>

\* mutant: the error of ListComments is not returned and the invocation goes on
Finish_IgnoreListError(r, stage, err, msg) ==
    IF stage = "list" /\ err # Nil
    THEN [r EXCEPT !.pc = "write", !.fault = stage]
    ELSE [r EXCEPT !.pc = "done", !.result = Wrap(err, msg),
                   !.fault = IF err = Nil THEN "" ELSE stage]

\* mutant: the error is wrapped with fmt.Errorf, which makes an error out of nil
Finish_Errorf(r, stage, err, msg) ==
    [r EXCEPT !.pc = "done", !.result = <<msg>> \o err,
              !.fault = IF err = Nil THEN "" ELSE stage]

\* a step that ends the invocation: return errors.Wrap(err, msg)
Finish(r, stage, err, msg) ==
    [r EXCEPT !.pc = "done", !.result = Wrap(err, msg),
              !.fault = IF err = Nil THEN "" ELSE stage]

\* pr, _, err := c.prs.Get(ctx, owner, reponame, prnum)
GetPR(i) ==
    /\ inv[i].pc = "get"
    /\ \E err \in {Nil, SvcErr} :
         LET r == [inv[i] EXCEPT !.calls = Append(@, Call("Get", inv[i].pr, 0, ""))]
         IN inv' = [inv EXCEPT ![i] =
                       IF err # Nil THEN Finish(r, "get", err, "getting pull request")
                       ELSE [r EXCEPT !.pc = "body"]]
    /\ UNCHANGED <<comments, nextID, hist, url, parsed>>

\* body, err := c.body(ctx, pr)
GenBody(i) ==
    /\ inv[i].pc = "body"
    /\ \E err \in {Nil, SvcErr}, b \in Bodies :
         LET r == [inv[i] EXCEPT !.calls = Append(@, Call("Body", inv[i].pr, 0, ""))]
         IN inv' = [inv EXCEPT ![i] =
                       IF err # Nil THEN Finish(r, "body", err, "getting comment body")
                       ELSE [r EXCEPT !.pc = "list", !.body = b]]
    /\ UNCHANGED <<comments, nextID, hist, url, parsed>>

\* mutant: the comments are listed and created on pull request 1, whatever prnum is
PRArg_Fixed(r) == 1

\* the pull request number AddOrUpdate passes to ListComments and CreateComment
PRArg(r) == r.pr

\* comments, _, err := c.issues.ListComments(ctx, owner, reponame, prnum, nil)
List(i) ==
    /\ inv[i].pc = "list"
    /\ \E err \in {Nil, SvcErr} :
         LET r == [inv[i] EXCEPT
                      !.calls = Append(@, Call("List", PRArg(inv[i]), 0, ""))]
         IN inv' = [inv EXCEPT ![i] =
                       IF err # Nil THEN Finish(r, "list", err, "listing PR comments")
                       ELSE [r EXCEPT !.pc = "write",
                                      !.listed = ListComments(comments, PRArg(inv[i]))]]
    /\ UNCHANGED <<comments, nextID, hist, url, parsed>>

\* mutant: no return after EditComment, so that CreateComment follows it
WriteCalls_FallThrough(r, m) ==
    IF m > 0
    THEN <<Call("Edit", 0, r.listed[m].id, r.body), Call("Create", PRArg(r), 0, r.body)>>
    ELSE <<Call("Create", PRArg(r), 0, r.body)>>

\* mutant: without a match the first listed comment is edited
WriteCalls_EditFirst(r, m) ==
    IF m > 0 \/ r.listed # <<>>
    THEN <<Call("Edit", 0, r.listed[IF m > 0 THEN m ELSE 1].id, r.body)>>
    ELSE <<Call("Create", PRArg(r), 0, r.body)>>

\* mutant: EditComment is given the comment that was listed, with its old body
WriteCalls_StaleBody(r, m) ==
    IF m > 0
    THEN <<Call("Edit", 0, r.listed[m].id, r.listed[m].body)>>
    ELSE <<Call("Create", PRArg(r), 0, r.body)>>

\* mutant: the match is looked for in the comments the service has at the time of
\* the write, as if listing and writing were one transaction
WriteCalls_Relist(r, m) ==
    LET now == ListComments(comments, PRArg(r))
        k   == FirstMatch(r.matcher, now)
    IN IF k > 0
       THEN <<Call("Edit", 0, now[k].id, r.body)>>
       ELSE <<Call("Create", PRArg(r), 0, r.body)>>

\* mutant: the loop over the listed comments is missing
WriteCalls_AlwaysCreate(r, m) == <<Call("Create", PRArg(r), 0, r.body)>>

\* the write calls of one invocation, given the index of the first match:
\* EditComment and return, or fall out of the loop to CreateComment
WriteCalls(r, m) ==
    IF m > 0
    THEN <<Call("Edit", 0, r.listed[m].id, r.body)>>
    ELSE <<Call("Create", PRArg(r), 0, r.body)>>

\* the service after the write calls that succeeded
RECURSIVE Apply(_, _, _)
Apply(cs, id, ws) ==
    IF ws = <<>> THEN cs
    ELSE Apply(IF Head(ws).op = "Edit"
               THEN EditComment(cs, Head(ws).id, Head(ws).body)
               ELSE CreateComment(cs, Head(ws).pr, id, Head(ws).body),
               id, Tail(ws))

\* the scan with IsComment, then EditComment of the first match or CreateComment
Write(i) ==
    /\ inv[i].pc = "write"
    /\ \E err \in {Nil, SvcErr} :
         LET r  == inv[i]
             m  == FirstMatch(r.matcher, r.listed)
             ws == WriteCalls(r, m)
             r2 == [r EXCEPT !.calls = @ \o ScanCalls(r.matcher, r.listed) \o ws]
         IN /\ inv' = [inv EXCEPT ![i] =
                          Finish(r2, "write", err,
                                 IF ws[Len(ws)].op = "Edit" THEN "updating PR comment"
                                 ELSE "adding PR comment")]
            /\ comments' = IF err = Nil THEN Apply(comments, nextID, ws) ELSE comments
            /\ nextID' = IF err = Nil /\ \E k \in 1..Len(ws) : ws[k].op = "Create"
                         THEN nextID + 1 ELSE nextID
    /\ UNCHANGED <<hist, url, parsed>>

\* hist[pr] summarises the invocations on pr that have returned, as long as they
\* are the sequential use the package is made for: the pull request started with
\* at most one marked comment, and every invocation so far succeeded, had the
\* matcher, generated a marked body and was given all the comments by ListComments.
\* After any other invocation only their number is kept.
Void == [n |-> 0, had |-> FALSE, ok |-> FALSE, creates |-> 0, first |-> FALSE,
         editn |-> 0, edits |-> {}, last |-> ""]

WriteOps(calls) == {k \in 1..Len(calls) : calls[k].op \in {"Edit", "Create"}}

\* the caller has the result and may call AddOrUpdate again
Again(i) ==
    /\ inv[i].pc = "done"
    /\ LET r == inv[i]
           h == hist[r.pr]
           C == {k \in 1..Len(r.calls) : r.calls[k].op = "Create"}
           E == {k \in 1..Len(r.calls) : r.calls[k].op = "Edit"}
           ok == /\ h.ok
                 /\ r.result = Nil
                 /\ r.matcher = "marked"
                 /\ r.body \in Marked
                 /\ r.listed = r.snap[r.pr]
       IN hist' = [hist EXCEPT ![r.pr] =
                     IF ~ok THEN [Void EXCEPT !.n = h.n + 1]
                     ELSE [n       |-> h.n + 1,
                           had     |-> h.had,
                           ok      |-> TRUE,
                           creates |-> h.creates + Cardinality(C),
                           first   |-> IF h.n = 0 /\ C # {} THEN TRUE ELSE h.first,
                           editn   |-> h.editn + Cardinality(E),
                           edits   |-> h.edits \cup {r.calls[k].id : k \in E},
                           last    |-> r.body]]
    /\ inv' = [inv EXCEPT ![i] = Idle]
    /\ UNCHANGED <<comments, nextID, url, parsed>>

\* the whole of AddOrUpdate run without interruption on the service state cs, with
\* the given outcome of the environment (body generated, stage that fails or "")
Alone(cs, id, pr, matcher, body, fault) ==
    LET r0    == [Idle EXCEPT !.pr = pr, !.matcher = matcher]
        get   == <<Call("Get", pr, 0, "")>>
        gen   == <<Call("Body", pr, 0, "")>>
        lst   == <<Call("List", PRArg(r0), 0, "")>>
        r     == [r0 EXCEPT !.body = body, !.listed = ListComments(cs, PRArg(r0))]
        m     == FirstMatch(matcher, r.listed)
        ws    == WriteCalls(r, m)
        label == IF ws[Len(ws)].op = "Edit" THEN "updating PR comment"
                 ELSE "adding PR comment"
    IN CASE fault = "get"   -> [calls |-> get, final |-> cs,
                                result |-> Wrap(SvcErr, "getting pull request")]
         [] fault = "body"  -> [calls |-> get \o gen, final |-> cs,
                                result |-> Wrap(SvcErr, "getting comment body")]
         [] fault = "list"  -> [calls |-> get \o gen \o lst, final |-> cs,
                                result |-> Wrap(SvcErr, "listing PR comments")]
         [] fault = "write" -> [calls |-> get \o gen \o lst
                                          \o ScanCalls(matcher, r.listed) \o ws,
                                final |-> cs, result |-> Wrap(SvcErr, label)]
         [] OTHER           -> [calls |-> get \o gen \o lst
                                          \o ScanCalls(matcher, r.listed) \o ws,
                                final |-> Apply(cs, id, ws), result |-> Nil]

----------------------------------------------------------------------------
(* ParsePR.  A string is a sequence of one-character strings. *)

Slash == "/"
Pull == <<"p","u","l","l">>

\* strings.TrimLeft(s, "/"): every leading slash goes
RECURSIVE TrimLeft(_)
TrimLeft(s) == IF s # <<>> /\ Head(s) = Slash THEN TrimLeft(Tail(s)) ELSE s

\* strings.Split(s, "/"): one more part than there are slashes
RECURSIVE Split(_)
Split(s) ==
    IF \E k \in 1..Len(s) : s[k] = Slash
    THEN LET k == CHOOSE k \in 1..Len(s) :
                    s[k] = Slash /\ \A j \in 1..(k-1) : s[j] # Slash
         IN <<SubSeq(s, 1, k-1)>> \o Split(SubSeq(s, k+1, Len(s)))
    ELSE <<s>>

Digits == <<"0","1","2","3","4","5","6","7","8","9">>
IsDigit(c) == \E k \in 1..10 : Digits[k] = c
DigitVal(c) == (CHOOSE k \in 1..10 : Digits[k] = c) - 1

\* an integer is kept as its canonical decimal numeral (no sign for zero or above,
\* no leading zeros), so that the 64-bit range of int is modelled at full width
Zero == <<"0">>
MaxIntMag == <<"9","2","2","3","3","7","2","0","3","6","8","5","4","7","7","5","8","0","7">>
MinIntMag == <<"9","2","2","3","3","7","2","0","3","6","8","5","4","7","7","5","8","0","8">>

RECURSIVE StripZeros(_)
StripZeros(d) == IF Len(d) > 1 /\ Head(d) = "0" THEN StripZeros(Tail(d)) ELSE d

\* a > b for numerals without leading zeros
Greater(a, b) ==
    \/ Len(a) > Len(b)
    \/ /\ Len(a) = Len(b)
       /\ \E k \in 1..Len(a) : /\ DigitVal(a[k]) > DigitVal(b[k])
                               /\ \A j \in 1..(k-1) : a[j] = b[j]

Numeral(neg, mag) == IF neg /\ mag # Zero THEN <<"-">> \o mag ELSE mag

\* strconv.Atoi(s) with a 64-bit int: [n, err]
Atoi(s) ==
    LET signed == s # <<>> /\ Head(s) \in {"+", "-"}
        neg    == s # <<>> /\ Head(s) = "-"
        d      == IF signed THEN Tail(s) ELSE s
        mag    == StripZeros(d)
    IN IF d = <<>> \/ \E k \in 1..Len(d) : ~IsDigit(d[k])
       THEN [n |-> Zero, err |-> <<"strconv.Atoi: invalid syntax">>]
       ELSE IF ~neg /\ Greater(mag, MaxIntMag)
       THEN [n |-> MaxIntMag, err |-> <<"strconv.Atoi: value out of range">>]
       ELSE IF neg /\ Greater(mag, MinIntMag)
       THEN [n |-> <<"-">> \o MinIntMag, err |-> <<"strconv.Atoi: value out of range">>]
       ELSE [n |-> Numeral(neg, mag), err |-> Nil]

\* mutant: parts[2] read as the second element
PullIndex_Second == 3 - 1

\* the index of the path element that must be "pull", and of the number
PullIndex == 3
NumIndex == 4

Unparsed == [done |-> FALSE, host |-> "", owner |-> <<>>, reponame |-> <<>>,
             prnum |-> Zero, err |-> Nil]

\* ParsePR(pr), on what url.Parse makes of pr: u = [ok, host, path]
ParsePR(u) ==
    LET zero  == [Unparsed EXCEPT !.done = TRUE]
        path  == TrimLeft(u.path)
        parts == Split(path)
    IN IF ~u.ok
       THEN [zero EXCEPT !.err = Wrap(<<"url.Parse error">>,
                                      "parsing GitHub pull-request URL")]
       ELSE IF Len(parts) < 4
       THEN [zero EXCEPT !.err = <<"too few path elements in pull-request URL (got",
                                   ToString(Len(parts)), ", want 4)">>]
       ELSE IF parts[PullIndex] # Pull
       THEN [zero EXCEPT !.err = <<"pull-request URL not in expected format">>]
       ELSE LET a == Atoi(parts[NumIndex])
            IN [zero EXCEPT !.host = u.host, !.owner = parts[1], !.reponame = parts[2],
                            !.prnum = a.n,
                            !.err = Wrap(a.err,
                                         "parsing number from GitHub pull-request URL")]

\* the call ParsePR(pr)
Parse ==
    /\ ~parsed.done
    /\ parsed' = ParsePR(url)
    /\ UNCHANGED <<comments, nextID, inv, hist, url>>
----------------------------------------------------------------------------
(* Initial states *)

\* the sequences of at most n initial comment bodies
BodySeqs(n) == UNION {[1..k -> InitBodies] : k \in 0..n}

\* comments numbered from `from` on, in the order created
Numbered(bs, from) == [k \in 1..Len(bs) |-> [id |-> from + k - 1, body |-> bs[k]]]

NoURL == [ok |-> FALSE, host |-> "", path |-> <<>>, segs |-> <<>>]

InitService ==
    \E b1, b2 \in BodySeqs(MaxInit) :
        /\ comments = (1 :> Numbered(b1, 1)) @@ (2 :> Numbered(b2, Len(b1) + 1))
        /\ nextID = Len(b1) + Len(b2) + 1
        /\ hist = [p \in PRs |->
                     LET bs == IF p = 1 THEN b1 ELSE b2
                         M  == {k \in 1..Len(bs) : bs[k] \in Marked}
                     IN IF Cardinality(M) > 1 THEN Void
                        ELSE [Void EXCEPT !.ok = TRUE, !.had = (M # {})]]

Init ==
    /\ InitService
    /\ inv = [i \in Procs |-> Idle]
    /\ url = NoURL
    /\ parsed = Unparsed

\* the path elements the URLs given to ParsePR are made of, by position; a fourth
\* element comes with what it is: a decimal integer or not, within int or not,
\* and its value
NamePool == {<<>>, <<"a","c","m","e">>, <<"w","i","d","g","e","t","s">>, <<"p","u","l","l">>}
ThirdPool == {<<"p","u","l","l">>, <<"i","s","s","u","e","s">>, <<"p","u","l">>}
NumPool == {
    [s |-> <<"4","2">>, int |-> TRUE, fits |-> TRUE, val |-> <<"4","2">>],
    [s |-> <<"a","b","c">>, int |-> FALSE, fits |-> FALSE, val |-> <<"0">>],
    [s |-> <<"-","7">>, int |-> TRUE, fits |-> TRUE, val |-> <<"-","7">>],
    [s |-> <<"+","5">>, int |-> TRUE, fits |-> TRUE, val |-> <<"5">>],
    [s |-> <<"0","0","7">>, int |-> TRUE, fits |-> TRUE, val |-> <<"7">>],
    [s |-> <<>>, int |-> FALSE, fits |-> FALSE, val |-> <<"0">>],
    [s |-> <<"4","x">>, int |-> FALSE, fits |-> FALSE, val |-> <<"0">>],
    [s |-> <<"-">>, int |-> FALSE, fits |-> FALSE, val |-> <<"0">>],
    [s |-> <<"-","0">>, int |-> TRUE, fits |-> TRUE, val |-> <<"0">>],
    [s |-> <<"9","2","2","3","3","7","2","0","3","6","8","5","4","7","7","5","8","0","7">>, int |-> TRUE, fits |-> TRUE, val |-> <<"9","2","2","3","3","7","2","0","3","6","8","5","4","7","7","5","8","0","7">>],
    [s |-> <<"9","2","2","3","3","7","2","0","3","6","8","5","4","7","7","5","8","0","8">>, int |-> TRUE, fits |-> FALSE, val |-> <<"0">>],
    [s |-> <<"-","9","2","2","3","3","7","2","0","3","6","8","5","4","7","7","5","8","0","8">>, int |-> TRUE, fits |-> TRUE, val |-> <<"-","9","2","2","3","3","7","2","0","3","6","8","5","4","7","7","5","8","0","8">>],
    [s |-> <<"-","9","2","2","3","3","7","2","0","3","6","8","5","4","7","7","5","8","0","9">>, int |-> TRUE, fits |-> FALSE, val |-> <<"0">>],
    [s |-> <<"p","u","l","l">>, int |-> FALSE, fits |-> FALSE, val |-> <<"0">>]}
RestPool == {<<"f","i","l","e","s">>, <<>>}

SegPool(k) ==
    IF k <= 2 THEN NamePool
    ELSE IF k = 3 THEN ThirdPool
    ELSE IF k = 4 THEN {e.s : e \in NumPool}
    ELSE RestPool

RECURSIVE SegListsOf(_)
SegListsOf(n) ==
    IF n = 0 THEN {<<>>}
    ELSE {Append(l, x) : l \in SegListsOf(n - 1), x \in SegPool(n)}

SegLists == UNION {SegListsOf(n) : n \in 0..MaxSegs}

RECURSIVE Join(_)
Join(segs) ==
    IF segs = <<>> THEN <<>>
    ELSE IF Len(segs) = 1 THEN segs[1]
    ELSE segs[1] \o <<Slash>> \o Join(Tail(segs))

Slashes(n) == [k \in 1..n |-> Slash]

InitParse ==
    /\ comments = [p \in PRs |-> <<>>]
    /\ nextID = 1
    /\ inv = [i \in Procs |-> Idle]
    /\ hist = [p \in PRs |-> Void]
    /\ parsed = Unparsed
    /\ \/ url = NoURL
       \/ \E h \in {"github.com", ""}, n \in 0..MaxSlashes, segs \in SegLists :
            url = [ok |-> TRUE, host |-> h, path |-> Slashes(n) \o Join(segs),
                   segs |-> segs]

----------------------------------------------------------------------------
(* Specifications *)

\* callers running AddOrUpdate concurrently, once each
Next == \E i \in Procs : Start(i) \/ GetPR(i) \/ GenBody(i) \/ List(i) \/ Write(i)
Spec == Init /\ [][Next]_vars

\* one caller calling AddOrUpdate again and again
NextSeq == Start(1) \/ GetPR(1) \/ GenBody(1) \/ List(1) \/ Write(1) \/ Again(1)
InitSeq == Init /\ comments[2] = <<>>
SpecSeq == InitSeq /\ [][NextSeq]_vars

\* ParsePR on every URL of the pools
NextParse == Parse
SpecParse == InitParse /\ [][NextParse]_vars
----------------------------------------------------------------------------
(* Properties *)

Done(i) == inv[i].pc = "done"
EarlyStages == {"get", "body", "list"}
\* the invocation got as far as the scan and the write
Wrote(i) == Done(i) /\ inv[i].fault \notin EarlyStages
\* the indexes of the marked comments of a sequence of comments
MarkedIn(cs) == {k \in 1..Len(cs) : cs[k].body \in Marked}
\* the least element of a non-empty set of numbers
Least(S) == CHOOSE k \in S : \A j \in S : k <= j
IDs(cs) == {cs[k].id : k \in 1..Len(cs)}
\* the calls on collaborators and on the body generator (not those of IsComment)
StageCalls(i) == SelectSeq(inv[i].calls, LAMBDA c : c.op # "IsComment")
MatcherCalls(i) == SelectSeq(inv[i].calls, LAMBDA c : c.op = "IsComment")

\* C1: an invocation issues at most one write call (EditComment or CreateComment,
\* failed ones counted), and exactly one once getting the pull request, generating
\* the body and listing the comments have succeeded and it has returned.
C1_AtMostOneWrite ==
    \A i \in Procs :
        LET W == WriteOps(inv[i].calls)
        IN /\ Cardinality(W) <= 1
           /\ Wrote(i) => Cardinality(W) = 1

\* a failed EditComment, and the invocation has returned
C1_Witness ==
    \E i \in Procs :
        /\ Done(i) /\ inv[i].fault = "write"
        /\ \E k \in WriteOps(inv[i].calls) : inv[i].calls[k].op = "Edit"

\* C2: a step of one of the three stages before the write leaves the comments of
\* the service as they are and calls neither EditComment nor CreateComment, and
\* when it fails the invocation has returned, with no write call made.
C2_EarlyFailureWritesNothing ==
    /\ [](\A i \in Procs :
            inv[i].fault \in EarlyStages =>
                Done(i) /\ WriteOps(inv[i].calls) = {})
    /\ [][\A i \in Procs :
            (inv[i].pc \in EarlyStages /\ inv'[i] # inv[i]) =>
                /\ comments' = comments
                /\ nextID' = nextID
                /\ WriteOps(inv'[i].calls) = {}]_vars

\* ListComments failed after the body was generated, while the other invocation
\* has written
C2_Witness ==
    \E i, j \in Procs :
        /\ Done(i) /\ inv[i].fault = "list" /\ inv[i].body # ""
        /\ Done(j) /\ inv[j].fault = "" /\ inv[j].pr = inv[i].pr

\* C3: with a matcher and a listed comment it accepts, the invocation calls
\* EditComment once, with the ID of the first such comment in listing order and
\* the generated body, calls no CreateComment, and has called the matcher on the
\* listed comments up to that one and on none after it.
C3_EditsFirstMatch ==
    \A i \in Procs :
        (Wrote(i) /\ inv[i].matcher # "nil" /\ MarkedIn(inv[i].listed) # {}) =>
            LET r == inv[i]
                k == Least(MarkedIn(r.listed))
            IN /\ SubSeq(StageCalls(i), 4, Len(StageCalls(i)))
                    = <<Call("Edit", 0, r.listed[k].id, r.body)>>
               /\ MatcherCalls(i)
                    = [j \in 1..k |-> Call("IsComment", 0, r.listed[j].id, r.listed[j].body)]

\* two listed comments match; the first has the new body and the second has not
C3_Witness ==
    \E i \in Procs :
        /\ Wrote(i) /\ inv[i].result = Nil /\ inv[i].matcher # "nil"
        /\ Cardinality(MarkedIn(inv[i].listed)) = 2
        /\ LET cs == comments[inv[i].pr]
           IN /\ Len(cs) >= 2
              /\ cs[1].body = inv[i].body
              /\ cs[2].body # inv[i].body
              /\ cs[2].body \in Marked

\* C4: without a matcher, or when the matcher accepts none of the listed comments,
\* the invocation calls CreateComment once, on its pull request and with the
\* generated body, and never EditComment.
C4_CreatesWhenNoMatch ==
    \A i \in Procs :
        (Wrote(i) /\ (inv[i].matcher = "nil" \/ MarkedIn(inv[i].listed) = {})) =>
            /\ SubSeq(StageCalls(i), 4, Len(StageCalls(i)))
                  = <<Call("Create", inv[i].pr, 0, inv[i].body)>>
            /\ inv[i].matcher # "nil" => Len(MatcherCalls(i)) = Len(inv[i].listed)

\* no matcher, a marked comment was listed, and a comment was added all the same
C4_Witness ==
    \E i \in Procs :
        /\ Wrote(i) /\ inv[i].result = Nil /\ inv[i].matcher = "nil"
        /\ MarkedIn(inv[i].listed) # {}
        /\ Len(comments[inv[i].pr]) > Len(inv[i].snap[inv[i].pr])

\* the comments of pull request pr that have the body b and that the matcher
\* accepts, when there is one
Fresh(pr, matcher, b) ==
    {k \in 1..Len(comments[pr]) :
        /\ comments[pr][k].body = b
        /\ matcher # "nil" => IsComment(matcher, comments[pr][k])}

\* C5 as stated: once an invocation has succeeded, exactly one comment (accepted by
\* the matcher, if there is one) with the generated body is on the pull request.
C5_ExactlyOneFresh ==
    \A i \in Procs :
        (Done(i) /\ inv[i].result = Nil) =>
            Cardinality(Fresh(inv[i].pr, inv[i].matcher, inv[i].body)) = 1

\* C5 amended: the successful write leaves a comment with the generated body on
\* the pull request: a new last comment when there is no matcher or no listed
\* comment matched, else the first listed match with its body replaced; every
\* other comment is as it was.
C5_WritesFreshBody ==
    [][\A i \in Procs :
        (inv[i].pc = "write" /\ inv'[i].pc = "done" /\ inv'[i].result = Nil) =>
            LET r   == inv[i]
                old == comments[r.pr]
                new == comments'[r.pr]
            IN /\ \A p \in PRs \ {r.pr} : comments'[p] = comments[p]
               /\ IF r.matcher = "nil" \/ MarkedIn(r.listed) = {}
                  THEN /\ Len(new) = Len(old) + 1
                       /\ SubSeq(new, 1, Len(old)) = old
                       /\ new[Len(new)].body = r.body
                       /\ new[Len(new)].id \notin IDs(old)
                  ELSE /\ Len(new) = Len(old)
                       /\ \A k \in 1..Len(old) :
                            new[k] = IF old[k].id = r.listed[Least(MarkedIn(r.listed))].id
                                     THEN [old[k] EXCEPT !.body = r.body]
                                     ELSE old[k]
                       /\ \E k \in 1..Len(new) :
                            /\ new[k].id = r.listed[Least(MarkedIn(r.listed))].id
                            /\ new[k].body = r.body]_vars

\* a successful invocation after which two comments have the generated body
C5_Witness ==
    \E i \in Procs :
        /\ Done(i) /\ inv[i].result = Nil
        /\ Cardinality({k \in 1..Len(comments[inv[i].pr]) :
                           comments[inv[i].pr][k].body = inv[i].body}) >= 2

\* C6: two invocations on the same pull request, both with the matcher, that were
\* both listed no matching comment and both succeeded have both called
\* CreateComment, and two comments that neither had at its start are on the pull
\* request: what an invocation writes follows from what it was listed, not from
\* what is on the service when it writes.
C6_BothCreate ==
    \A i, j \in Procs :
        (/\ i # j /\ inv[i].pr = inv[j].pr
         /\ Wrote(i) /\ Wrote(j) /\ inv[i].result = Nil /\ inv[j].result = Nil
         /\ inv[i].matcher = "marked" /\ inv[j].matcher = "marked"
         /\ MarkedIn(inv[i].listed) = {} /\ MarkedIn(inv[j].listed) = {}) =>
            LET pr  == inv[i].pr
                old == IDs(inv[i].snap[pr]) \cap IDs(inv[j].snap[pr])
            IN /\ \A p \in {i, j} : \E k \in WriteOps(inv[p].calls) :
                    inv[p].calls[k].op = "Create"
               /\ Cardinality(IDs(comments[pr]) \ old) = 2

\* the race: the pull request had no comment, both invocations were listed none,
\* and now it has two comments, both of which the matcher accepts
C6_Witness ==
    \E i, j \in Procs :
        /\ i # j /\ inv[i].pr = inv[j].pr
        /\ Wrote(i) /\ Wrote(j) /\ inv[i].result = Nil /\ inv[j].result = Nil
        /\ inv[i].matcher = "marked" /\ inv[j].matcher = "marked"
        /\ inv[i].snap[inv[i].pr] = <<>> /\ inv[j].snap[inv[j].pr] = <<>>
        /\ inv[i].listed = <<>> /\ inv[j].listed = <<>>
        /\ Len(comments[inv[i].pr]) = 2
        /\ MarkedIn(comments[inv[i].pr]) = {1, 2}
\* a sequence of comments with the IDs outside `known` blanked: the ID a new
\* comment gets is the service's choice
Norm(cs, known) ==
    [k \in 1..Len(cs) |-> IF cs[k].id \in known THEN cs[k] ELSE [cs[k] EXCEPT !.id = 0]]

\* no other invocation works on the pull request of invocation i
OnItsOwn(i) == \A j \in Procs \ {i} : inv[j].pc = "idle" \/ inv[j].pr # inv[i].pr

\* C7: an invocation that shares its pull request with no other invocation has
\* made the calls, returned the result and left the comments of its pull request
\* as it would have running alone from the state it started in; its calls name
\* its own pull request and comments of it only, and its steps leave the comments
\* of every other pull request as they are.
C7_NoInterference ==
    /\ [](\A i \in Procs :
            LET r == inv[i]
            IN r.pc # "idle" =>
               /\ (Done(i) /\ OnItsOwn(i)) =>
                    LET a == Alone(r.snap, 0, r.pr, r.matcher, r.body, r.fault)
                    IN /\ r.calls = a.calls
                       /\ r.result = a.result
                       /\ Norm(comments[r.pr], IDs(r.snap[r.pr])) = a.final[r.pr]
               /\ \A k \in 1..Len(r.calls) :
                    IF r.calls[k].op \in {"Edit", "IsComment"}
                    THEN r.calls[k].id \in IDs(comments[r.pr])
                    ELSE r.calls[k].pr = r.pr
               /\ IDs(r.listed) \subseteq IDs(comments[r.pr]))
    /\ [][\A i \in Procs :
            (inv'[i] # inv[i] /\ inv'[i].pc # "idle") =>
                \A p \in PRs \ {inv'[i].pr} : comments'[p] = comments[p]]_vars

\* both invocations have written, each on its own pull request: one has edited a
\* comment and the other has added one
C7_Witness ==
    \E i, j \in Procs :
        /\ inv[i].pr # inv[j].pr
        /\ Wrote(i) /\ Wrote(j) /\ inv[i].result = Nil /\ inv[j].result = Nil
        /\ \E k \in WriteOps(inv[i].calls) : inv[i].calls[k].op = "Edit"
        /\ \E k \in WriteOps(inv[j].calls) : inv[j].calls[k].op = "Create"

\* the stage of a call and the label of its error
StageOf(op) == CASE op = "Get" -> "get" [] op = "Body" -> "body"
                 [] op = "List" -> "list" [] OTHER -> "write"
LabelOf(op) == CASE op = "Get" -> "getting pull request"
                 [] op = "Body" -> "getting comment body"
                 [] op = "List" -> "listing PR comments"
                 [] op = "Edit" -> "updating PR comment"
                 [] OTHER -> "adding PR comment"

\* C8: the calls of an invocation are, in this order and each at most once, Get,
\* the body generator, ListComments and one of EditComment and CreateComment; it
\* returns nil exactly when all four were made and none failed, and otherwise the
\* error of the call that failed under the label of its stage, that call being
\* the last one it made.
C8_StagesInOrder ==
    \A i \in Procs :
        LET sc == StageCalls(i)
            n  == Len(sc)
        IN /\ n <= 4
           /\ \A k \in 1..n :
                sc[k].op \in (CASE k = 1 -> {"Get"} [] k = 2 -> {"Body"}
                                [] k = 3 -> {"List"} [] OTHER -> {"Edit", "Create"})
           /\ ~Done(i) => inv[i].result = Nil /\ n < 4
           /\ Done(i) =>
                /\ n >= 1
                /\ inv[i].result = Nil <=> inv[i].fault = ""
                /\ inv[i].fault = "" => n = 4
                /\ inv[i].fault # "" =>
                     /\ StageOf(sc[n].op) = inv[i].fault
                     /\ inv[i].result = <<LabelOf(sc[n].op)>> \o SvcErr

\* EditComment failed and the invocation returned its error
C8_Witness ==
    \E i \in Procs :
        /\ Done(i)
        /\ inv[i].result = <<"updating PR comment">> \o SvcErr
        /\ Len(StageCalls(i)) = 4

\* the path elements of a URL after its leading slashes are trimmed: those the
\* path was made of without the empty ones in front, and one empty element when
\* nothing is left
RECURSIVE DropEmpty(_)
DropEmpty(segs) ==
    IF segs # <<>> /\ Head(segs) = <<>> THEN DropEmpty(Tail(segs)) ELSE segs
Segments(u) == IF DropEmpty(u.segs) = <<>> THEN << <<>> >> ELSE DropEmpty(u.segs)

\* what a path element is as a number
NumFacts(seg) ==
    IF \E e \in NumPool : e.s = seg THEN CHOOSE e \in NumPool : e.s = seg
    ELSE [s |-> seg, int |-> FALSE, fits |-> FALSE, val |-> Zero]

\* which of its checks ParsePR failed
Outcome(p) ==
    IF p.err = Nil THEN "ok"
    ELSE IF p.err[1] = "too few path elements in pull-request URL (got" THEN "too few"
    ELSE IF p.err[1] = "pull-request URL not in expected format" THEN "format"
    ELSE IF p.err[1] = "parsing number from GitHub pull-request URL" THEN "number"
    ELSE "url"

\* the classification of C9, where isNumber says which fourth elements pass
Classified(u, isNumber(_)) ==
    LET sg == Segments(u)
    IN IF Len(sg) < 4 THEN [outcome |-> "too few"]
       ELSE IF sg[3] # Pull THEN [outcome |-> "format"]
       ELSE IF ~isNumber(sg[4]) THEN [outcome |-> "number"]
       ELSE [outcome |-> "ok", host |-> u.host, owner |-> sg[1], reponame |-> sg[2],
             prnum |-> NumFacts(sg[4]).val]

Returned(p) ==
    IF p.err # Nil THEN [outcome |-> Outcome(p)]
    ELSE [outcome |-> "ok", host |-> p.host, owner |-> p.owner, reponame |-> p.reponame,
          prnum |-> p.prnum]

\* C9 as stated: fewer than four elements, then a third element other than
\* "pull", then a fourth element that is not an integer, each fail with its
\* error, and every other URL gives (host, first, second, fourth as a number).
C9_ClassifiesByInteger ==
    (parsed.done /\ url.ok) =>
        Returned(parsed) = Classified(url, LAMBDA seg : NumFacts(seg).int)

\* C9 amended: the fourth element passes when it is a decimal integer (an
\* optional sign, then digits) within the range of a 64-bit int; an integer
\* outside that range fails with the number-parsing error too.
C9_ClassifiesByInt64 ==
    (parsed.done /\ url.ok) =>
        Returned(parsed) = Classified(url, LAMBDA seg : NumFacts(seg).int /\ NumFacts(seg).fits)

\* https://github.com/acme/widgets/pull/42/files gives (github.com, acme, widgets, 42)
C9_Witness ==
    /\ parsed.done /\ parsed.err = Nil
    /\ url.host = "github.com" /\ Len(url.segs) = 5 /\ url.path[1] = Slash
    /\ parsed.host = "github.com"
    /\ parsed.owner = <<"a","c","m","e">>
    /\ parsed.reponame = <<"w","i","d","g","e","t","s">>
    /\ parsed.prnum = <<"4","2">>

====
